---------------------------- MODULE Spec2Model ----------------------------
(***************************************************************************)
(* A model of src/utils.py: the Google Drive / Sheets helper functions.    *)
(*                                                                         *)
(* One behaviour is one invocation of one public function against a remote *)
(* Drive and a local disk chosen in Init.  Every remote call the source    *)
(* makes (an execute() or a next_chunk()) is one step whose outcome, a     *)
(* response or an HttpError, is chosen by the environment.                 *)
(***************************************************************************)
EXTENDS Integers, Sequences, FiniteSets

\* ------------------------------------------------------------------ bounds

\* Largest number of files the remote Drive holds.
MaxFiles == 3

\* Largest number of next_chunk calls a download needs before the downloader
\* reports done or raises.
MaxChunks == 2

\* pageSize of the listing in empty_a_folder.  The source asks for 1000; the
\* model keeps the same single-page listing with a page smaller than
\* MaxFiles, so that a folder can hold more files than one page.
EmptyFolderPageSize == 2

\* Largest Drive in the behaviours of FairSpec.
MaxLiveFiles == 2

\* page_size download_spreadsheet and export_dataframe_to_gsheet pass on.
DownloadPageSize == 100
ExportPageSize == 200

\* ------------------------------------------------------------- value sets

\* File names are sequences of characters, so that str.endswith is computed.
BookXlsx == <<"b", ".", "x", "l", "s", "x">>
BookXls == <<"o", ".", "x", "l", "s">>
PlainSheet == <<"s">>
Names == {BookXlsx, BookXls, PlainSheet}

\* Ids of the folders files live in.
FolderIds == {"F1", "F2"}

\* A value _time_now() can return.
Stamps == {<<"2", "0">>}

\* Local folders download_spreadsheet is asked to write to.
OutFolders == {"outputs"}

\* Chunks of media a next_chunk call can deliver (an empty one included).
Chunks == {<<>>, <<1>>, <<2>>}

\* Content of a local file left by an earlier run.
OldBytes == <<9>>

\* id_gdrive when the name is not in the listing: Python's False.
FalseId == 0

XlsxMime == "application/vnd.openxmlformats-officedocument.spreadsheetml.sheet"

\* ---------------------------------------------------------------- helpers

RECURSIVE SeqsUpTo(_, _)
SeqsUpTo(S, n) ==
    IF n = 0 THEN {<<>>}
    ELSE LET shorter == SeqsUpTo(S, n - 1)
         IN  shorter \cup {Append(s, x) : s \in {t \in shorter : Len(t) = n - 1}, x \in S}

Min(a, b) == IF a <= b THEN a ELSE b

\* The Drives the model starts from: files with ids 1..n in creation order,
\* any names (two files may share a name) and any parent folder.
Drives ==
    {[i \in 1..Len(meta) |-> [id |-> i, name |-> meta[i][1], parent |-> meta[i][2]]] :
        meta \in SeqsUpTo(Names \X FolderIds, MaxFiles)}

\* ------------------------------------------------------------------ state

VARIABLES
    drive,      \* the remote Drive: a sequence of [id, name, parent]
    disk,       \* the local disk: a function from the paths that exist to bytes
    dirs,       \* the local folders that exist
    pc,         \* where the invocation is
    op,         \* the public function invoked
    fn,         \* the download function entered by download_spreadsheet
    arg_name,   \* file_name / gsheet_name
    arg_folder, \* folder (download_spreadsheet) or folder_id (empty_a_folder)
    fid,        \* id_gdrive / gsheet_id / file_id
    target,     \* file_path of the download
    buffer,     \* io.BytesIO: the bytes staged in memory
    done,       \* the loop variable of the download
    items,      \* empty_a_folder: the listed files not yet visited
    result,     \* kind of value returned
    mapping,    \* the dict list_files returned
    raised,     \* exception the invocation ended with
    printed,    \* what was printed, besides download progress
    requests,   \* remote calls sent during the invocation, in order
    clients,    \* number of clients built by _create_gdrive_service
    \* history, read by the properties only
    drive0, disk0, resp, chunks, writes, failed, apiError

vars == <<drive, disk, dirs, pc, op, fn, arg_name, arg_folder, fid, target,
          buffer, done, items, result, mapping, raised, printed, requests,
          clients, drive0, disk0, resp, chunks, writes, failed, apiError>>


\* --------------------------------------------------------- pure functions

\* A dict built so that the first item of a name wins.
RECURSIVE NameToIdFirst(_)
NameToIdFirst(its) ==
    IF its = <<>> THEN <<>>
    ELSE LET n == Len(its)
             prev == NameToIdFirst(SubSeq(its, 1, n - 1))
         IN  [k \in DOMAIN prev \cup {its[n].name} |->
                 IF k \in DOMAIN prev THEN prev[k] ELSE its[n].id]

\* src/utils.py:45  {item['name']: item['id'] for item in items}: the items
\* are visited in order and a later item replaces an earlier one of its name.
RECURSIVE NameToId(_)
NameToId(its) ==
    IF its = <<>> THEN <<>>
    ELSE LET n == Len(its)
             prev == NameToId(SubSeq(its, 1, n - 1))
         IN  [k \in DOMAIN prev \cup {its[n].name} |->
                 IF k = its[n].name THEN its[n].id ELSE prev[k]]

\* What files.list answers for one page: the first pageSize matching files,
\* with the fields asked for (id, name).
ListPage(files, pageSize) ==
    [i \in 1..Min(pageSize, Len(files)) |-> [id |-> files[i].id, name |-> files[i].name]]

\* The files a query "'<folder_id>' in parents" matches, in Drive order.
RECURSIVE InFolder(_, _)
InFolder(files, folder_id) ==
    IF files = <<>> THEN <<>>
    ELSE LET rest == InFolder(Tail(files), folder_id)
         IN  IF Head(files).parent = folder_id THEN <<Head(files)>> \o rest ELSE rest

\* The Drive without the file of this id.
RECURSIVE Without(_, _)
Without(files, id) ==
    IF files = <<>> THEN <<>>
    ELSE IF Head(files).id = id THEN Without(Tail(files), id)
         ELSE <<Head(files)>> \o Without(Tail(files), id)

Ids(files) == {files[i].id : i \in 1..Len(files)}

\* str.endswith
EndsWith(s, suffix) ==
    /\ Len(s) >= Len(suffix)
    /\ SubSeq(s, Len(s) - Len(suffix) + 1, Len(s)) = suffix

\* src/utils.py:119  the test that picks the download function
IsExcelName(file_name) ==
    \/ EndsWith(file_name, <<"x", "l", "s", "x">>)
    \/ EndsWith(file_name, <<"x", "l", "s">>)

\* src/utils.py:114  '_' + _time_now() if with_date else ''
TimeSuffix(with_date, now) == IF with_date THEN <<"_">> \o now ELSE <<>>

\* src/utils.py:121 and 125  the path handed to the download function
DownloadPath(folder, file_name, suffix) ==
    IF IsExcelName(file_name)
    THEN [dir |-> folder, file |-> file_name \o suffix]
    ELSE [dir |-> folder, file |-> file_name \o suffix \o <<".", "x", "l", "s", "x">>]

\* src/utils.py:120 and 124  the download function called
DownloadFn(file_name) ==
    IF IsExcelName(file_name) THEN "_download_file" ELSE "_download_gsheet_file"

\* A lookup that falls back to a listed id when the name is missing.
LookupOrListed(files, file_name) ==
    IF file_name \in DOMAIN files THEN files[file_name]
    ELSE IF DOMAIN files = {} THEN FalseId
    ELSE LET ids == {files[k] : k \in DOMAIN files}
         IN  CHOOSE v \in ids : \A w \in ids : v <= w

\* src/utils.py:112  files[file_name] if file_name in files else False
LookupOrFalse(files, file_name) ==
    IF file_name \in DOMAIN files THEN files[file_name] ELSE FalseId

\* A test on the staged bytes (file.getvalue()) instead of the object.
FileTruthyByContent(file) == Len(file) > 0

\* src/utils.py:79 and 99  `if file:` on an io.BytesIO, which defines neither
\* __bool__ nor __len__: the object is true whatever it holds.
FileTruthy(file) == TRUE

\* A buffer rewound before each chunk is written.
BufferWriteAtStart(file, chunk) == chunk \o SubSeq(file, Len(chunk) + 1, Len(file))

\* MediaIoBaseDownload.next_chunk writes the chunk at the end of the buffer.
BufferWrite(file, chunk) == file \o chunk

\* A loop that never looks at done.
LoopCondAlways(d) == TRUE

\* src/utils.py:72 and 92  while done is False
LoopCond(d) == d = FALSE

\* src/utils.py:53-56  open(file_path, 'wb') truncates or creates the file and
\* one write puts the whole buffer in it.
ExportFile(fs, file_path, bytes) ==
    [p \in DOMAIN fs \cup {file_path} |-> IF p = file_path THEN bytes ELSE fs[p]]

\* The request each download function builds.
MediaRequest(f, id) ==
    IF f = "_download_file"
    THEN [api |-> "files.get_media", id |-> id, mime |-> ""]
    ELSE [api |-> "files.export_media", id |-> id, mime |-> XlsxMime]

Req(api, id) == [api |-> api, id |-> id, mime |-> ""]

\* Every path a download of the model can write.
AllPaths ==
    {DownloadPath(f, n, TimeSuffix(w, t)) :
        f \in OutFolders, n \in Names, w \in BOOLEAN, t \in Stamps}

\* ------------------------------------------------------------------- Init

InitFrom(drives) ==
    /\ drive \in drives
    /\ \E old \in BOOLEAN :
          /\ disk = IF old THEN [p \in AllPaths |-> OldBytes] ELSE <<>>
          /\ dirs = IF old THEN OutFolders ELSE {}
    /\ pc = "idle"
    /\ op = "none"
    /\ fn = "none"
    /\ arg_name = <<>>
    /\ arg_folder = ""
    /\ fid = FalseId
    /\ target = [dir |-> "", file |-> <<>>]
    /\ buffer = <<>>
    /\ done = FALSE
    /\ items = <<>>
    /\ result = "none"
    /\ mapping = <<>>
    /\ raised = "none"
    /\ printed = "none"
    /\ requests = <<>>
    /\ clients = 0
    /\ drive0 = drive
    /\ disk0 = disk
    /\ resp = <<>>
    /\ chunks = <<>>
    /\ writes = 0
    /\ failed = <<>>
    /\ apiError = FALSE

Init == InitFrom(Drives)

\* The Drives of at most MaxLiveFiles files, for the termination property.
LiveInit == InitFrom({d \in Drives : Len(d) <= MaxLiveFiles})

\* ---------------------------------------------------------------- actions

\* src/utils.py:34-50  what one call of list_files does with the answer of
\* files.list: ok is FALSE when execute() raised HttpError.
ListFilesReturn(ok, files, page_size) ==
    IF ~ok
    THEN [result |-> "None", mapping |-> <<>>, printed |-> "error", resp |-> <<>>]
    ELSE LET its == ListPage(files, page_size)
         IN  IF its # <<>>
             THEN [result |-> "dict", mapping |-> NameToId(its),
                   printed |-> "none", resp |-> its]
             ELSE [result |-> "dict", mapping |-> <<>>,
                   printed |-> "nofiles", resp |-> its]

\* list_files(page_size) called by the user.
list_files(page_size) ==
    /\ pc = "idle"
    /\ \E ok \in BOOLEAN :
          LET r == ListFilesReturn(ok, drive, page_size)
          IN  /\ op' = "list_files"
              /\ clients' = 1
              /\ requests' = <<Req("files.list", FalseId)>>
              /\ result' = r.result
              /\ mapping' = r.mapping
              /\ printed' = r.printed
              /\ resp' = r.resp
              /\ apiError' = ~ok
              /\ pc' = "returned"
    /\ UNCHANGED <<drive, disk, dirs, fn, arg_name, arg_folder, fid, target,
                   buffer, done, items, raised, drive0, disk0, chunks, writes,
                   failed>>

\* download_spreadsheet(file_name, folder, with_date), up to the call of the
\* download function; now is what _time_now() returns.
download_spreadsheet(file_name, folder, with_date, now) ==
    /\ pc = "idle"
    /\ \E ok \in BOOLEAN :
          LET r == ListFilesReturn(ok, drive, DownloadPageSize)
          IN  /\ op' = "download_spreadsheet"
              /\ arg_name' = file_name
              /\ arg_folder' = folder
              /\ clients' = 1
              /\ requests' = <<Req("files.list", FalseId)>>
              /\ mapping' = r.mapping
              /\ printed' = r.printed
              /\ resp' = r.resp
              /\ apiError' = ~ok
              /\ IF r.result = "None"
                 THEN \* file_name in None
                      /\ raised' = "TypeError"
                      /\ pc' = "raised"
                      /\ UNCHANGED <<fid, dirs, target, fn>>
                 ELSE /\ fid' = LookupOrFalse(r.mapping, file_name)
                      /\ dirs' = dirs \cup {folder}
                      /\ target' = DownloadPath(folder, file_name, TimeSuffix(with_date, now))
                      /\ fn' = DownloadFn(file_name)
                      /\ raised' = raised
                      /\ pc' = "download"
    /\ UNCHANGED <<drive, disk, buffer, done, items, result, drive0, disk0,
                   chunks, writes, failed>>

\* src/utils.py:63-70 and 85-90  the client, the request, the buffer.
DownloadBegin(f) ==
    /\ pc = "download"
    /\ fn = f
    /\ clients' = clients + 1
    /\ \/ /\ buffer' = <<>>
          /\ done' = FALSE
          /\ pc' = "loop"
          /\ UNCHANGED <<result, apiError>>
       \/ \* HttpError while the request is built
          /\ result' = "HttpError"
          /\ apiError' = TRUE
          /\ pc' = "returned"
          /\ UNCHANGED <<buffer, done>>
    /\ UNCHANGED <<drive, disk, dirs, op, fn, arg_name, arg_folder, fid, target,
                   items, mapping, raised, printed, requests, drive0, disk0,
                   resp, chunks, writes, failed>>

\* src/utils.py:72-77 and 92-97  one turn of the loop.  Drive answers a
\* request for an id it does not hold with an error (404), and any request
\* may fail.
NextChunk(f) ==
    /\ pc = "loop"
    /\ fn = f
    /\ LoopCond(done)
    /\ Len(chunks) < MaxChunks
    /\ requests' = Append(requests, MediaRequest(f, fid))
    /\ \/ /\ fid \in Ids(drive)
          /\ \E c \in Chunks, d \in BOOLEAN :
                /\ Len(chunks) + 1 < MaxChunks \/ d
                /\ buffer' = BufferWrite(buffer, c)
                /\ chunks' = Append(chunks, c)
                /\ done' = d
          /\ UNCHANGED <<pc, result, apiError>>
       \/ /\ result' = "HttpError"
          /\ apiError' = TRUE
          /\ pc' = "returned"
          /\ UNCHANGED <<buffer, chunks, done>>
    /\ UNCHANGED <<drive, disk, dirs, op, fn, arg_name, arg_folder, fid, target,
                   items, mapping, raised, printed, clients, drive0, disk0,
                   resp, writes, failed>>

\* src/utils.py:79-81 and 99-101  after the loop.
DownloadEnd(f) ==
    /\ pc = "loop"
    /\ fn = f
    /\ ~LoopCond(done)
    /\ IF FileTruthy(buffer)
       THEN /\ disk' = ExportFile(disk, target, buffer)
            /\ writes' = writes + 1
            /\ result' = "True"
       ELSE /\ result' = "None"
            /\ UNCHANGED <<disk, writes>>
    /\ pc' = "returned"
    /\ UNCHANGED <<drive, dirs, op, fn, arg_name, arg_folder, fid, target,
                   buffer, done, items, mapping, raised, printed, requests,
                   clients, drive0, disk0, resp, chunks, failed, apiError>>

download_file ==
    \/ DownloadBegin("_download_file")
    \/ NextChunk("_download_file")
    \/ DownloadEnd("_download_file")

download_gsheet_file ==
    \/ DownloadBegin("_download_gsheet_file")
    \/ NextChunk("_download_gsheet_file")
    \/ DownloadEnd("_download_gsheet_file")

\* export_dataframe_to_gsheet, up to the update request.  The dataframe, the
\* sheet name and the cell address only travel in the request's body.
export_dataframe_to_gsheet(gsheet_name) ==
    /\ pc = "idle"
    /\ \E ok \in BOOLEAN :
          LET r == ListFilesReturn(ok, drive, ExportPageSize)
          IN  /\ op' = "export_dataframe_to_gsheet"
              /\ arg_name' = gsheet_name
              /\ clients' = 2
              /\ requests' = <<Req("files.list", FalseId)>>
              /\ mapping' = r.mapping
              /\ printed' = r.printed
              /\ resp' = r.resp
              /\ apiError' = ~ok
              /\ IF r.result = "None"
                 THEN \* None[gsheet_name]
                      /\ raised' = "TypeError"
                      /\ pc' = "raised"
                      /\ fid' = fid
                 ELSE IF gsheet_name \notin DOMAIN r.mapping
                 THEN /\ raised' = "KeyError"
                      /\ pc' = "raised"
                      /\ fid' = fid
                 ELSE /\ fid' = r.mapping[gsheet_name]
                      /\ raised' = raised
                      /\ pc' = "update"
    /\ UNCHANGED <<drive, disk, dirs, fn, arg_folder, target, buffer, done,
                   items, result, drive0, disk0, chunks, writes, failed>>

\* src/utils.py:142-152  values().update(...).execute(), outside any try.
sheets_update ==
    /\ pc = "update"
    /\ requests' = Append(requests, Req("spreadsheets.values.update", fid))
    /\ \/ /\ result' = "response"
          /\ pc' = "returned"
          /\ UNCHANGED <<raised, apiError>>
       \/ /\ raised' = "HttpError"
          /\ apiError' = TRUE
          /\ pc' = "raised"
          /\ UNCHANGED result
    /\ UNCHANGED <<drive, disk, dirs, op, fn, arg_name, arg_folder, fid, target,
                   buffer, done, items, mapping, printed, clients, drive0,
                   disk0, resp, chunks, writes, failed>>

\* send_file_to_folder: files().create(...).execute(), outside any try.  The
\* guard keeps the Drive within MaxFiles.
send_file_to_folder(folder_id, file_name) ==
    /\ pc = "idle"
    /\ Len(drive) < MaxFiles
    /\ op' = "send_file_to_folder"
    /\ arg_name' = file_name
    /\ arg_folder' = folder_id
    /\ clients' = 1
    /\ requests' = <<Req("files.create", FalseId)>>
    /\ \/ /\ drive' = Append(drive, [id |-> Len(drive) + 1, name |-> file_name,
                                     parent |-> folder_id])
          /\ result' = "response"
          /\ pc' = "returned"
          /\ UNCHANGED <<raised, apiError>>
       \/ /\ raised' = "HttpError"
          /\ apiError' = TRUE
          /\ pc' = "raised"
          /\ UNCHANGED <<drive, result>>
    /\ UNCHANGED <<disk, dirs, fn, fid, target, buffer, done, items, mapping,
                   printed, drive0, disk0, resp, chunks, writes, failed>>

\* src/utils.py:189-200  empty_a_folder: the client and the one listing,
\* outside any try.
empty_a_folder(folder_id) ==
    /\ pc = "idle"
    /\ op' = "empty_a_folder"
    /\ arg_folder' = folder_id
    /\ clients' = 1
    /\ requests' = <<Req("files.list", FalseId)>>
    /\ \/ /\ items' = ListPage(InFolder(drive, folder_id), EmptyFolderPageSize)
          /\ resp' = items'
          /\ pc' = "deleting"
          /\ UNCHANGED <<raised, apiError>>
       \/ /\ raised' = "HttpError"
          /\ apiError' = TRUE
          /\ pc' = "raised"
          /\ UNCHANGED <<items, resp>>
    /\ UNCHANGED <<drive, disk, dirs, fn, arg_name, fid, target, buffer, done,
                   result, mapping, printed, drive0, disk0, chunks, writes,
                   failed>>

\* A handler that prints the error and goes on with the next file.
DeleteFailedContinue(id) ==
    /\ printed' = "error"
    /\ failed' = Append(failed, id)
    /\ apiError' = TRUE
    /\ items' = Tail(items)
    /\ UNCHANGED <<drive, pc, result>>

\* src/utils.py:205-207  the delete raised HttpError.
DeleteFailed(id) ==
    /\ printed' = "error"
    /\ result' = "False"
    /\ failed' = Append(failed, id)
    /\ apiError' = TRUE
    /\ pc' = "returned"
    /\ UNCHANGED <<drive, items>>

\* src/utils.py:202-207  one turn of the loop over the listed files.
delete_next ==
    /\ pc = "deleting"
    /\ items # <<>>
    /\ requests' = Append(requests, Req("files.delete", Head(items).id))
    /\ \/ /\ drive' = Without(drive, Head(items).id)
          /\ items' = Tail(items)
          /\ UNCHANGED <<pc, result, printed, failed, apiError>>
       \/ DeleteFailed(Head(items).id)
    /\ UNCHANGED <<disk, dirs, op, fn, arg_name, arg_folder, fid, target,
                   buffer, done, mapping, raised, clients, drive0, disk0, resp,
                   chunks, writes>>

\* src/utils.py:208  the loop is over.
empty_return ==
    /\ pc = "deleting"
    /\ items = <<>>
    /\ result' = "True"
    /\ pc' = "returned"
    /\ UNCHANGED <<drive, disk, dirs, op, fn, arg_name, arg_folder, fid, target,
                   buffer, done, items, mapping, raised, printed, requests,
                   clients, drive0, disk0, resp, chunks, writes, failed,
                   apiError>>

\* get_file_modification_time sending the request again after an error.
get_file_modification_time_retry(file_id) ==
    /\ pc = "idle"
    /\ op' = "get_file_modification_time"
    /\ fid' = file_id
    /\ clients' = 1
    /\ \/ /\ file_id \in Ids(drive)
          /\ requests' = <<Req("files.get", file_id)>>
          /\ result' = "modifiedTime"
          /\ UNCHANGED <<printed, apiError>>
       \/ /\ requests' = <<Req("files.get", file_id), Req("files.get", file_id)>>
          /\ printed' = "error"
          /\ result' = "None"
          /\ apiError' = TRUE
    /\ pc' = "returned"
    /\ UNCHANGED <<drive, disk, dirs, fn, arg_name, arg_folder, target, buffer,
                   done, items, mapping, raised, drive0, disk0, resp, chunks,
                   writes, failed>>

\* get_file_modification_time(file_id)
get_file_modification_time(file_id) ==
    /\ pc = "idle"
    /\ op' = "get_file_modification_time"
    /\ fid' = file_id
    /\ clients' = 1
    /\ requests' = <<Req("files.get", file_id)>>
    /\ \/ /\ file_id \in Ids(drive)
          /\ result' = "modifiedTime"
          /\ UNCHANGED <<printed, apiError>>
       \/ /\ printed' = "error"
          /\ result' = "None"
          /\ apiError' = TRUE
    /\ pc' = "returned"
    /\ UNCHANGED <<drive, disk, dirs, fn, arg_name, arg_folder, target, buffer,
                   done, items, mapping, raised, drive0, disk0, resp, chunks,
                   writes, failed>>

\* page_size values a user of list_files passes.
PageSizes == {EmptyFolderPageSize, DownloadPageSize}

Next ==
    \/ \E page_size \in PageSizes : list_files(page_size)
    \/ \E file_name \in Names, folder \in OutFolders, with_date \in BOOLEAN,
          now \in Stamps : download_spreadsheet(file_name, folder, with_date, now)
    \/ download_file
    \/ download_gsheet_file
    \/ \E gsheet_name \in Names : export_dataframe_to_gsheet(gsheet_name)
    \/ sheets_update
    \/ \E folder_id \in FolderIds, file_name \in Names :
          send_file_to_folder(folder_id, file_name)
    \/ \E folder_id \in FolderIds : empty_a_folder(folder_id)
    \/ delete_next
    \/ empty_return
    \/ \E file_id \in 1..MaxFiles : get_file_modification_time(file_id)

Spec == Init /\ [][Next]_vars

\* The functions block on each remote call and go on when it answers.
FairSpec == LiveInit /\ [][Next]_vars /\ WF_vars(Next)

\* ------------------------------------------------------------- properties

Terminal == pc \in {"returned", "raised"}

InDownload == op = "download_spreadsheet" /\ fn # "none"

RECURSIVE Flatten(_)
Flatten(ss) == IF ss = <<>> THEN <<>> ELSE Head(ss) \o Flatten(Tail(ss))

\* The greatest index at which the response lists a file of this name.
LastIndexOf(its, k) ==
    CHOOSE i \in 1..Len(its) :
        /\ its[i].name = k
        /\ \A j \in (i + 1)..Len(its) : its[j].name # k

DistinctNames(its) ==
    \A i, j \in 1..Len(its) : its[i].name = its[j].name => i = j

ListFilesGaveDict == op = "list_files" /\ pc = "returned" /\ result = "dict"

\* C1 as stated: a response listing n files gives a mapping of exactly n
\* entries, one per listed file, each from the file's name to its id.
C1_OneEntryPerFile ==
    ListFilesGaveDict =>
        /\ Cardinality(DOMAIN mapping) = Len(resp)
        /\ \A i \in 1..Len(resp) :
              resp[i].name \in DOMAIN mapping /\ mapping[resp[i].name] = resp[i].id

\* C1 amended: the mapping has one entry per distinct name among the listed
\* files, each name mapped to the id of the last listed file bearing it; it
\* has n entries when the n names differ, and none when no file is listed.
C1_OneEntryPerName ==
    ListFilesGaveDict =>
        /\ DOMAIN mapping = {resp[i].name : i \in 1..Len(resp)}
        /\ \A k \in DOMAIN mapping : mapping[k] = resp[LastIndexOf(resp, k)].id
        /\ DistinctNames(resp) => Cardinality(DOMAIN mapping) = Len(resp)
        /\ resp = <<>> => DOMAIN mapping = {} /\ printed = "nofiles"

C1_Witness ==
    /\ ListFilesGaveDict
    /\ Len(resp) = 3
    /\ Cardinality(DOMAIN mapping) = 2

\* C2: the local file is written only after the downloader reported done,
\* once, with the chunks received in that call concatenated in arrival order;
\* one next_chunk call was made per chunk.
C2_WriteOnceAfterDone ==
    /\ writes <= 1
    /\ writes = 0 => disk = disk0
    /\ writes = 1 =>
          /\ InDownload /\ done /\ pc = "returned"
          /\ Len(chunks) >= 1
          /\ Len(requests) = 1 + Len(chunks)
          /\ DOMAIN disk = DOMAIN disk0 \cup {target}
          /\ disk[target] = Flatten(chunks)
          /\ \A p \in DOMAIN disk0 \ {target} : disk[p] = disk0[p]
    /\ InDownload /\ pc = "returned" /\ result = "True" => writes = 1

C2_Witness ==
    /\ InDownload
    /\ writes = 1
    /\ Len(chunks) = 2
    /\ chunks[1] # <<>> /\ chunks[2] # <<>> /\ chunks[1] # chunks[2]

\* C3 as stated: an HttpError of a remote call is caught, and printed or
\* returned; no invocation ends by raising because a remote call failed.
C3_ErrorsCaught ==
    apiError /\ Terminal =>
        /\ pc = "returned"
        /\ printed = "error" \/ result = "HttpError"

\* C4 as stated: when empty_a_folder returns True, no file with folder_id as
\* parent is left (no one else adds files during the call).
C4_FolderEmptied ==
    op = "empty_a_folder" /\ pc = "returned" /\ result = "True" =>
        InFolder(drive, arg_folder) = <<>>

NameMissing ==
    /\ op \in {"download_spreadsheet", "export_dataframe_to_gsheet"}
    /\ raised # "TypeError"
    /\ arg_name \notin DOMAIN mapping

\* C6 as stated: with the requested name missing from the listing, both
\* functions end there by raising, having sent no request after the listing
\* and written no local file.
C6_MissingNameRaises ==
    NameMissing =>
        /\ pc = "raised"
        /\ Len(requests) = 1
        /\ writes = 0

\* C6 amended: with the requested name missing from the listing,
\* export_dataframe_to_gsheet ends by raising KeyError, having sent no update
\* request; download_spreadsheet does not raise: it takes False for the id,
\* creates the output folder, sends its download requests with that id and
\* returns the HttpError of the download.  Neither writes a local file.
C6_MissingNameOutcome ==
    NameMissing =>
        /\ writes = 0 /\ disk = disk0
        /\ op = "export_dataframe_to_gsheet" =>
              /\ pc = "raised" /\ raised = "KeyError"
              /\ Len(requests) = 1
        /\ op = "download_spreadsheet" =>
              /\ pc # "raised" /\ raised = "none"
              /\ fid = FalseId
              /\ arg_folder \in dirs
              /\ \A i \in 2..Len(requests) : requests[i] = MediaRequest(fn, FalseId)
              /\ Terminal => result = "HttpError"

C6_Witness ==
    /\ NameMissing
    /\ op = "download_spreadsheet"
    /\ drive # <<>>
    /\ pc = "returned"
    /\ Len(requests) = 2
    /\ requests[2].id = FalseId

\* Ids of the delete requests sent so far, in order.
DeleteIds == [i \in 1..(Len(requests) - 1) |-> requests[i + 1].id]

\* C7: empty_a_folder sends the deletes one at a time in listing order; the
\* first delete that raises HttpError is printed and ends the call with
\* False, with no retry and no later delete: the files deleted before stay
\* deleted, the failing and the later ones remain.  It returns False exactly
\* when a delete raised, and True with no delete request on an empty listing.
C7_StopsAtFirstFailure ==
    op = "empty_a_folder" /\ pc \in {"deleting", "returned"} =>
        /\ Len(DeleteIds) <= Len(resp)
        /\ \A i \in 1..Len(DeleteIds) : DeleteIds[i] = resp[i].id
        /\ pc = "returned" =>
              /\ result \in {"True", "False"}
              /\ result = "False" <=> failed # <<>>
              /\ result = "False" =>
                    /\ failed = <<DeleteIds[Len(DeleteIds)]>>
                    /\ printed = "error"
                    /\ Ids(drive) = Ids(drive0) \ {DeleteIds[i] : i \in 1..(Len(DeleteIds) - 1)}
              /\ result = "True" =>
                    /\ Len(DeleteIds) = Len(resp)
                    /\ Ids(drive) = Ids(drive0) \ {resp[i].id : i \in 1..Len(resp)}
              /\ resp = <<>> => result = "True" /\ Len(requests) = 1

C7_Witness ==
    /\ op = "empty_a_folder"
    /\ pc = "returned"
    /\ result = "False"
    /\ Len(DeleteIds) = 2
    /\ Len(InFolder(drive, arg_folder)) = 2

\* C8: a download function that met an HttpError, while building the request
\* or on any next_chunk call, returns the error and leaves the disk as it
\* was; it returns True exactly when it wrote the file at file_path, and it
\* returns nothing but True or an HttpError.
C8_ErrorLeavesDiskAlone ==
    InDownload =>
        /\ apiError => pc = "returned" /\ result = "HttpError"
        /\ pc = "returned" =>
              /\ result \in {"True", "HttpError"}
              /\ result = "HttpError" => apiError /\ writes = 0 /\ disk = disk0
              /\ result = "True" <=> writes = 1
              /\ result = "True" => target \in DOMAIN disk /\ disk[target] = buffer

C8_Witness ==
    /\ InDownload
    /\ pc = "returned"
    /\ result = "HttpError"
    /\ Len(chunks) >= 1 /\ buffer # <<>>
    /\ target \in DOMAIN disk
    /\ disk[target] = OldBytes

\* The suffixes download_spreadsheet can put after the name.
TimeSuffixes == {<<>>} \cup {<<"_">> \o t : t \in Stamps}

\* C9 as stated: every call of download_spreadsheet enters exactly one
\* download function, picked by the name alone: raw media to
\* <folder>/<file_name><suffix> for a name ending in xlsx or xls, the xlsx
\* export to <folder>/<file_name><suffix>.xlsx otherwise; the output folder
\* exists from before the download starts.
C9_OnePathPerCall ==
    op = "download_spreadsheet" =>
        /\ fn \in {"_download_file", "_download_gsheet_file"}
        /\ arg_folder \in dirs
        /\ target.dir = arg_folder
        /\ IF \/ EndsWith(arg_name, <<"x", "l", "s", "x">>)
              \/ EndsWith(arg_name, <<"x", "l", "s">>)
           THEN /\ fn = "_download_file"
                /\ \E sfx \in TimeSuffixes : target.file = arg_name \o sfx
                /\ \A i \in 2..Len(requests) : requests[i].api = "files.get_media"
           ELSE /\ fn = "_download_gsheet_file"
                /\ \E sfx \in TimeSuffixes :
                      target.file = arg_name \o sfx \o <<".", "x", "l", "s", "x">>
                /\ \A i \in 2..Len(requests) :
                      /\ requests[i].api = "files.export_media"
                      /\ requests[i].mime = XlsxMime

\* C10: next_chunk is called only while done is False; the loop is left only
\* because the downloader reported done or raised HttpError, no request
\* follows either, and the call then ends with True or the error; a
\* downloader that ends up reporting done or raising makes the call end.
C10_LoopTerminates ==
    /\ [][pc = "loop" /\ Len(requests') > Len(requests) => ~done]_vars
    /\ [][pc = "loop" /\ pc' # "loop" =>
             /\ pc' = "returned"
             /\ (done /\ result' = "True") \/ (~done /\ result' = "HttpError")]_vars
    /\ [][InDownload /\ (done \/ result = "HttpError") => requests' = requests]_vars
    /\ (pc = "loop") ~> (pc = "returned" /\ result \in {"True", "HttpError"})

C10_Witness ==
    /\ InDownload
    /\ pc = "returned"
    /\ result = "True"
    /\ Len(chunks) = MaxChunks

=============================================================================
